---- MODULE Spec2Model ----
(***************************************************************************)
(* AsthmaGuard: the risk engine of the React client (App, risk useMemo)    *)
(* and the subscription / notification routes of src/api.ts.               *)
(*                                                                         *)
(* Two specifications share the variables:                                 *)
(*   SpecRisk  the client's weather data and the risk derived from it;     *)
(*   Spec      the server: subscription store, routes, mail dispatch, and  *)
(*             the requests the client's handlers send to it.              *)
(*                                                                         *)
(* An optional value (null / undefined in the source) is a sequence of     *)
(* length 0 or 1.  A string the code inspects character by character (an   *)
(* email) is a sequence of one-character strings.                          *)
(***************************************************************************)
EXTENDS Integers, Sequences, FiniteSets, Bags

VARIABLES
    data,         \* App: data (WeatherData | null)
    risk,         \* App: risk, the memo derived from data
    postgresUrl,  \* process.env.POSTGRES_URL is set
    sqliteOk,     \* require("better-sqlite3") and opening the file succeed
    resendOn,     \* resend !== null (RESEND_API_KEY is set)
    initPending,  \* the promise of initDB() has not run its then-callback
    localDb,      \* the module variable localDb (optional handle)
    store,        \* the rows of table subscriptions
    inflight,     \* notify requests awaiting resend.emails.send (a bag)
    reply,        \* the response being sent (optional), with its request
    lastCall,     \* history: the last call of upsert/deleteSubscription
    \* App state (useState) and the requests of the page that are under way
    mounted,          \* the mount effect (useEffect, line 188) has run
    geoSupported,     \* navigator.geolocation exists
    loading,
    uiError,          \* the state error of App ("" for null)
    searchQuery,
    email,
    sendingEmail,
    uiAutoNotify,     \* the state autoNotify of App
    isSubscribed,
    showNotification, \* optional {msg, type}
    geoPending,       \* getCurrentPosition calls awaiting their callback
    fetches,          \* weather requests of fetchWeather / searchCity (a bag)
    checks,           \* requests of checkSubscription (a bag)
    notifies,         \* requests of handleNotify (a bag)
    unsubs,           \* requests of handleUnsubscribe (a bag)
    lastEvent         \* history: the last continuation of a page request

riskVars == <<data, risk>>
serverVars == <<postgresUrl, sqliteOk, resendOn, initPending, localDb, store,
                inflight, reply, lastCall>>
weatherVars == <<mounted, geoSupported, loading, uiError, searchQuery,
                 geoPending, fetches>>
alertVars == <<email, sendingEmail, uiAutoNotify, isSubscribed, showNotification,
               checks, notifies, unsubs>>
uiVars == <<mounted, geoSupported, loading, uiError, searchQuery, email,
            sendingEmail, uiAutoNotify, isSubscribed, showNotification,
            geoPending, fetches, checks, notifies, unsubs, lastEvent>>
vars == <<data, risk, postgresUrl, sqliteOk, resendOn, initPending, localDb,
          store, inflight, reply, lastCall, mounted, geoSupported, loading,
          uiError, searchQuery, email, sendingEmail, uiAutoNotify, isSubscribed,
          showNotification, geoPending, fetches, checks, notifies, unsubs,
          lastEvent>>

----------------------------------------------------------------------------
(* Risk engine: App, const risk = useMemo(...)                              *)

\* Readings the weather provider can deliver (temperature in degrees C,
\* humidity in %, wind speed in m/s), chosen around the rule thresholds.
Temps == {5, 9, 10, 11, 20, 32, 33}
Humidities == {50, 75, 76, 80}
WindSpeeds == {3, 10, 11, 12}
MaxAqi == 5
\* data.aqi.list: empty, or one reading; a reading of 0 stands for a
\* falsy main.aqi (absent or 0), which "|| 1" replaces.
AqiLists == {<< >>} \cup {<<a>> : a \in 0..MaxAqi}

Snapshots == [temp : Temps, humidity : Humidities, windSpeed : WindSpeeds,
              aqiList : AqiLists]

\* AqiOf that takes a missing reading for the worst index.
AqiOf_MissingIsWorst(d) == IF Len(d.aqiList) = 0 THEN 5
                           ELSE IF d.aqiList[1] = 0 THEN 5 ELSE d.aqiList[1]

\* data.aqi.list[0]?.main.aqi || 1
AqiOf(d) == IF Len(d.aqiList) = 0 THEN 1
            ELSE IF d.aqiList[1] = 0 THEN 1 ELSE d.aqiList[1]

\* One rule's contribution: score delta, triggers pushed, advice pushed.
NoMatch == [score |-> 0, triggers |-> << >>, advice |-> << >>]
Match(s, t, a) == [score |-> s, triggers |-> <<t>>, advice |-> <<a>>]

\* AqiRule with the two branches tested in the wrong order.
AqiRule_BranchesSwapped(aqi) ==
    IF aqi >= 3
    THEN Match(2, "Moderate Air Pollution",
               "Air quality is moderate. Sensitive individuals should limit prolonged outdoor exertion.")
    ELSE IF aqi >= 4
    THEN Match(3, "Poor Air Quality",
               "Air quality is very poor. Avoid all outdoor activities and keep windows closed.")
    ELSE NoMatch

AqiRule(aqi) ==
    IF aqi >= 4
    THEN Match(3, "Poor Air Quality",
               "Air quality is very poor. Avoid all outdoor activities and keep windows closed.")
    ELSE IF aqi >= 3
    THEN Match(2, "Moderate Air Pollution",
               "Air quality is moderate. Sensitive individuals should limit prolonged outdoor exertion.")
    ELSE NoMatch

\* TempRule with non-strict comparisons.
TempRule_NonStrict(temp) ==
    IF temp <= 10
    THEN Match(2, "Cold Air",
               "Cold air can trigger bronchospasm. Wear a scarf to warm the air you breathe.")
    ELSE IF temp >= 32
    THEN Match(1, "Extreme Heat",
               "High heat can increase ozone levels. Stay in air-conditioned spaces.")
    ELSE NoMatch

TempRule(temp) ==
    IF temp < 10
    THEN Match(2, "Cold Air",
               "Cold air can trigger bronchospasm. Wear a scarf to warm the air you breathe.")
    ELSE IF temp > 32
    THEN Match(1, "Extreme Heat",
               "High heat can increase ozone levels. Stay in air-conditioned spaces.")
    ELSE NoMatch

HumidityRule(humidity) ==
    IF humidity > 75
    THEN Match(2, "High Humidity",
               "High humidity can harbor mold and dust mites. Use a dehumidifier.")
    ELSE NoMatch

\* WindRule with the comparison inverted.
WindRule_Inverted(windSpeed) ==
    IF windSpeed < 10
    THEN Match(1, "High Wind (Allergens)",
               "Wind can stir up pollen and dust. Keep windows closed.")
    ELSE NoMatch

WindRule(windSpeed) ==
    IF windSpeed > 10
    THEN Match(1, "High Wind (Allergens)",
               "Wind can stir up pollen and dust. Keep windows closed.")
    ELSE NoMatch

\* Accumulate with the temperature block placed before the AQI block.
Accumulate_TempFirst(d) ==
    LET r1 == AqiRule(AqiOf(d))
        r2 == TempRule(d.temp)
        r3 == HumidityRule(d.humidity)
        r4 == WindRule(d.windSpeed)
    IN [score    |-> r1.score + r2.score + r3.score + r4.score,
        triggers |-> r2.triggers \o r1.triggers \o r3.triggers \o r4.triggers,
        advice   |-> r2.advice \o r1.advice \o r3.advice \o r4.advice]

\* The accumulation of score / triggers / advice over the four if-blocks.
Accumulate(d) ==
    LET r1 == AqiRule(AqiOf(d))
        r2 == TempRule(d.temp)
        r3 == HumidityRule(d.humidity)
        r4 == WindRule(d.windSpeed)
    IN [score    |-> r1.score + r2.score + r3.score + r4.score,
        triggers |-> r1.triggers \o r2.triggers \o r3.triggers \o r4.triggers,
        advice   |-> r1.advice \o r2.advice \o r3.advice \o r4.advice]

\* The returned RiskAssessment; score is the local variable of the
\* computation, kept in the record so that properties can speak of it.
Assessment(level, color, bgColor, advice, triggers, score) ==
    [level |-> level, color |-> color, bgColor |-> bgColor,
     advice |-> advice, triggers |-> triggers, score |-> score]

\* if (!data) return { level: "Low", ..., advice: [], triggers: [] }
NoDataRisk == Assessment("Low", "text-emerald-500", "bg-emerald-50", << >>, << >>, 0)

\* LevelOf with the High threshold off by one.
LevelOf_HighAt4(acc) ==
    IF acc.score >= 5
    THEN Assessment("Extreme", "text-rose-600", "bg-rose-50", acc.advice, acc.triggers, acc.score)
    ELSE IF acc.score >= 4
    THEN Assessment("High", "text-orange-500", "bg-orange-50", acc.advice, acc.triggers, acc.score)
    ELSE IF acc.score >= 1
    THEN Assessment("Moderate", "text-amber-500", "bg-amber-50", acc.advice, acc.triggers, acc.score)
    ELSE Assessment("Low", "text-emerald-500", "bg-emerald-50",
                    <<"Conditions are currently stable. Enjoy your day but keep your rescue inhaler nearby.">>,
                    <<"None detected">>, acc.score)

\* LevelOf whose Low branch returns the (empty) accumulated lists.
LevelOf_LowUnseeded(acc) ==
    IF acc.score >= 5
    THEN Assessment("Extreme", "text-rose-600", "bg-rose-50", acc.advice, acc.triggers, acc.score)
    ELSE IF acc.score >= 3
    THEN Assessment("High", "text-orange-500", "bg-orange-50", acc.advice, acc.triggers, acc.score)
    ELSE IF acc.score >= 1
    THEN Assessment("Moderate", "text-amber-500", "bg-amber-50", acc.advice, acc.triggers, acc.score)
    ELSE Assessment("Low", "text-emerald-500", "bg-emerald-50", acc.advice, acc.triggers, acc.score)

\* The final if-chain on score.
LevelOf(acc) ==
    IF acc.score >= 5
    THEN Assessment("Extreme", "text-rose-600", "bg-rose-50", acc.advice, acc.triggers, acc.score)
    ELSE IF acc.score >= 3
    THEN Assessment("High", "text-orange-500", "bg-orange-50", acc.advice, acc.triggers, acc.score)
    ELSE IF acc.score >= 1
    THEN Assessment("Moderate", "text-amber-500", "bg-amber-50", acc.advice, acc.triggers, acc.score)
    ELSE Assessment("Low", "text-emerald-500", "bg-emerald-50",
                    <<"Conditions are currently stable. Enjoy your day but keep your rescue inhaler nearby.">>,
                    <<"None detected">>, acc.score)

\* risk = useMemo(() => ..., [data]); dat is data as an optional value.
RiskOf(dat) == IF Len(dat) = 0 THEN NoDataRisk ELSE LevelOf(Accumulate(dat[1]))

----------------------------------------------------------------------------
(* Emails.  The alphabet is small; " " is the only whitespace character.   *)

EmailLower == <<"a", "@", "x", ".", "c">>
EmailUpper == <<"A", "@", "x", ".", "c">>
\* Strings the pattern rejects: no "@" (like "not-an-email"), no dot after
\* the "@", a second "@", whitespace.
EmailNoAt == <<"a", "x", ".", "c">>
EmailNoDot == <<"a", "@", "x", "c">>
EmailTwoAt == <<"a", "@", "@", "x", ".", "c">>
EmailSpace == <<"a", " ", "@", "x", ".", "c">>
\* The empty sequence is a falsy email: "" or a missing field.
EmailNone == << >>

AllEmails == {EmailLower, EmailUpper, EmailNoAt, EmailNoDot, EmailTwoAt,
              EmailSpace, EmailNone}
\* A route parameter (/subscription/:email) is never empty.
RouteParams == AllEmails \ {EmailNone}

\* emailRegex without the requirement of a dot in the domain: ^[^\s@]+@[^\s@]+$
EmailRegexTest_NoDot(s) ==
    \E i \in 1..Len(s) :
        /\ i > 1 /\ i < Len(s)
        /\ s[i] = "@"
        /\ \A k \in 1..Len(s) : k # i => s[k] \notin {"@", " "}

\* emailRegex with \s left out of the classes: ^[^@]+@[^@]+\.[^@]+$
EmailRegexTest_AllowsSpace(s) ==
    \E i \in 1..Len(s), j \in 1..Len(s) :
        /\ i > 1
        /\ s[i] = "@"
        /\ j > i + 1 /\ j < Len(s)
        /\ s[j] = "."
        /\ \A k \in 1..Len(s) : k # i => s[k] # "@"

\* emailRegex.test(s) for /^[^\s@]+@[^\s@]+\.[^\s@]+$/ : s = L "@" D "." T
\* with L, D, T non-empty and free of whitespace and "@".
EmailRegexTest(s) ==
    \E i \in 1..Len(s), j \in 1..Len(s) :
        /\ i > 1
        /\ s[i] = "@"
        /\ j > i + 1 /\ j < Len(s)
        /\ s[j] = "."
        /\ \A k \in 1..Len(s) : k # i => s[k] \notin {"@", " "}

\* validateEmail that only looks for an "@" (as checkSubscription does).
validateEmail_AtOnly(s) == \E i \in 1..Len(s) : s[i] = "@"

\* validateEmail of the client: the same pattern.
validateEmail(s) ==
    \E i \in 1..Len(s), j \in 1..Len(s) :
        /\ i > 1
        /\ s[i] = "@"
        /\ j > i + 1 /\ j < Len(s)
        /\ s[j] = "."
        /\ \A k \in 1..Len(s) : k # i => s[k] \notin {"@", " "}

----------------------------------------------------------------------------
(* The subscription table and the database abstraction layer of api.ts     *)

\* A row of subscriptions; auto_notify is stored as 1 / 0 (Postgres TRUE /
\* FALSE), last_notified_at has no default and created_at is never read.
Row(e, n) == [email |-> e, auto_notify |-> n, last_notified_at |-> "NULL"]

\* UpsertRows that leaves an existing row alone (ON CONFLICT DO NOTHING).
UpsertRows_DoNothing(rows, e, n) ==
    IF \E r \in rows : r.email = e THEN rows ELSE rows \cup {Row(e, n)}

\* UpsertRows without the conflict clause on a table without a primary key.
UpsertRows_Append(rows, e, n) == rows \cup {Row(e, n)}

\* INSERT ... ON CONFLICT(email) DO UPDATE SET auto_notify = excluded.auto_notify
UpsertRows(rows, e, n) ==
    IF \E r \in rows : r.email = e
    THEN {IF r.email = e THEN [r EXCEPT !.auto_notify = n] ELSE r : r \in rows}
    ELSE rows \cup {Row(e, n)}

\* DeleteRows without the WHERE clause.
DeleteRows_All(rows, e) == {}

\* DELETE FROM subscriptions WHERE email = e
DeleteRows(rows, e) == {r \in rows : r.email # e}

\* SELECT * FROM subscriptions WHERE email = e; rows[0] / .get(): optional row
SelectRow(rows, e) ==
    IF \E r \in rows : r.email = e
    THEN <<CHOOSE r \in rows : r.email = e>>
    ELSE << >>

\* A statement reaches a database: Postgres, or SQLite once localDb is set.
HasStore == postgresUrl \/ Len(localDb) = 1

\* getSubscription(email); ok: the SELECT does not fail.  The Postgres
\* branch catches a failure and returns null, the SQLite branch lets it out.
getSubscription(e, ok) ==
    IF postgresUrl
    THEN [threw |-> FALSE, row |-> IF ok THEN SelectRow(store, e) ELSE << >>]
    ELSE IF Len(localDb) = 1
    THEN [threw |-> ~ok, row |-> IF ok THEN SelectRow(store, e) ELSE << >>]
    ELSE [threw |-> FALSE, row |-> << >>]

\* upsertSubscription(email, autoNotify); ok: the INSERT does not fail.  The
\* Postgres branch catches a failure, the SQLite branch lets it out.
upsertSubscription(e, autoNotify, ok) ==
    IF postgresUrl
    THEN [threw |-> FALSE,
          rows |-> IF ok THEN UpsertRows(store, e, IF autoNotify THEN 1 ELSE 0) ELSE store]
    ELSE IF Len(localDb) = 1
    THEN [threw |-> ~ok,
          rows |-> IF ok THEN UpsertRows(store, e, IF autoNotify THEN 1 ELSE 0) ELSE store]
    ELSE [threw |-> FALSE, rows |-> store]

\* deleteSubscription that issues no statement.
deleteSubscription_NoStatement(e, ok) == [threw |-> FALSE, rows |-> store]

\* deleteSubscription that treats a DELETE matching no row as an error.
deleteSubscription_ThrowsIfAbsent(e, ok) ==
    IF postgresUrl \/ Len(localDb) = 1
    THEN [threw |-> ~ok \/ DeleteRows(store, e) = store,
          rows |-> IF ok THEN DeleteRows(store, e) ELSE store]
    ELSE [threw |-> FALSE, rows |-> store]

\* deleteSubscription(email); ok: the DELETE does not fail.  Neither branch
\* catches a failure.
deleteSubscription(e, ok) ==
    IF postgresUrl
    THEN [threw |-> ~ok, rows |-> IF ok THEN DeleteRows(store, e) ELSE store]
    ELSE IF Len(localDb) = 1
    THEN [threw |-> ~ok, rows |-> IF ok THEN DeleteRows(store, e) ELSE store]
    ELSE [threw |-> FALSE, rows |-> store]

----------------------------------------------------------------------------
(* Responses and request records                                           *)

\* res.status(status).json(body); a field the body lacks is FALSE / "".
Resp(status, success, simulated, subscribed, autoNotify, error) ==
    [status |-> status, success |-> success, simulated |-> simulated,
     subscribed |-> subscribed, autoNotify |-> autoNotify, error |-> error]

StatusResp(row) ==
    Resp(200, FALSE, FALSE, Len(row) = 1,
         IF Len(row) = 1 THEN row[1].auto_notify # 0 ELSE FALSE, "")
StatusUnavailable == Resp(200, FALSE, FALSE, FALSE, FALSE, "Database unavailable")
UnsubscribedResp == Resp(200, TRUE, FALSE, FALSE, FALSE, "")
DatabaseError == Resp(500, FALSE, FALSE, FALSE, FALSE, "Database error")
InvalidEmail == Resp(400, FALSE, FALSE, FALSE, FALSE, "Please provide a valid email address.")
Simulated == Resp(200, TRUE, TRUE, FALSE, FALSE, "")
Sent == Resp(200, TRUE, FALSE, FALSE, FALSE, "")
OnboardingLimit ==
    Resp(403, FALSE, FALSE, FALSE, FALSE,
         "Resend Onboarding Limit: You can only send emails to your own verified address while in onboarding mode.")
ProviderError(msg) == Resp(500, FALSE, FALSE, FALSE, FALSE, msg)
InternalError == Resp(500, FALSE, FALSE, FALSE, FALSE, "Internal server error")

\* A finished request: what was asked (op, email, saveEmail, and whether the
\* client's handler or another HTTP client sent it), the response, the
\* statements / sends it issued, whether a statement of it failed and how
\* its call of resend.emails.send settled ("none": no call).
Done(op, e, save, via, resp, reads, writes, deletes, sends, failed) ==
    [op |-> op, email |-> e, save |-> save, via |-> via, resp |-> resp,
     reads |-> reads, writes |-> writes, deletes |-> deletes, sends |-> sends,
     failed |-> failed, outcome |-> "none"]

\* The last call of a store-writing helper: changes is the number of rows
\* the statement touched, applied whether it ran against a database.
Call(op, e, autoNotify, applied, changes) ==
    [op |-> op, email |-> e, autoNotify |-> autoNotify, applied |-> applied,
     changes |-> changes]

\* Number of notify requests that may await the mail provider at a time.
MaxInFlight == 1

----------------------------------------------------------------------------
(* Initial state: module evaluation of api.ts and the first render of App  *)

InitClient ==
    /\ data = << >>
    /\ risk = RiskOf(<< >>)

\* The useState defaults of App; nothing has been requested yet.
InitUi ==
    /\ mounted = FALSE
    /\ loading = TRUE
    /\ uiError = ""
    /\ searchQuery = ""
    /\ email = << >>
    /\ sendingEmail = FALSE
    /\ uiAutoNotify = TRUE
    /\ isSubscribed = FALSE
    /\ showNotification = << >>
    /\ geoPending = 0
    /\ fetches = EmptyBag
    /\ checks = EmptyBag
    /\ notifies = EmptyBag
    /\ unsubs = EmptyBag
    /\ lastEvent = << >>

\* A fresh deployment: the table is empty.  With POSTGRES_URL set initDB
\* returns before it looks for SQLite.
InitServer ==
    /\ postgresUrl \in BOOLEAN
    /\ sqliteOk \in (IF postgresUrl THEN {FALSE} ELSE BOOLEAN)
    /\ resendOn \in BOOLEAN
    /\ initPending = TRUE
    /\ localDb = << >>
    /\ store = {}
    /\ inflight = EmptyBag
    /\ reply = << >>
    /\ lastCall = << >>

\* The server with a page that is not used, in a browser with geolocation.
Init == InitClient /\ InitServer /\ InitUi /\ geoSupported = TRUE

----------------------------------------------------------------------------
(* Client: weather data                                                    *)

\* setData(result) in fetchWeather / searchCity, followed by the re-render
\* that re-evaluates the risk memo.
SetData(d) ==
    /\ data' = <<d>>
    /\ risk' = RiskOf(data')
    /\ UNCHANGED serverVars
    /\ UNCHANGED uiVars

NextRisk == \E d \in Snapshots : SetData(d)

\* The client alone: the server stays as one deployment leaves it (no
\* database, no mail key).
InitRisk == Init /\ ~postgresUrl /\ ~sqliteOk /\ ~resendOn

SpecRisk == InitRisk /\ [][NextRisk]_vars

----------------------------------------------------------------------------
(* Server: src/api.ts                                                      *)

\* res.json(...) of the previous handler has been written out: handlers run
\* one at a time, and a response leaves before the next handler step runs.
Idle == Len(reply) = 0

\* initDB().then(db => { localDb = db; }): the SQLite handle, null when
\* SQLite is unavailable, undefined on the Postgres path.
InitDBThen ==
    /\ initPending /\ Idle
    /\ initPending' = FALSE
    /\ localDb' = IF ~postgresUrl /\ sqliteOk THEN <<"db">> ELSE << >>
    /\ UNCHANGED uiVars
    /\ UNCHANGED <<data, risk, postgresUrl, sqliteOk, resendOn, store, inflight,
                   reply, lastCall>>

\* A statement can fail only where one is issued: the parameter ok of the
\* handlers below is the outcome of the handler's one statement.

\* Serving for an initDB that awaits on the SQLite path too.
Serving_Always == TRUE

\* Without POSTGRES_URL initDB contains no await: its promise is resolved
\* when the module has been evaluated and the then-callback is a microtask
\* that runs before the event loop delivers a request.  With POSTGRES_URL
\* it awaits CREATE TABLE, and requests may be served meanwhile.
Serving == postgresUrl \/ ~initPending

\* api.get("/subscription/:email")
GetStatus(e, ok) ==
    /\ Serving /\ Idle
    /\ ok \/ HasStore
    /\ LET got == getSubscription(e, ok)
           resp == IF got.threw THEN StatusUnavailable ELSE StatusResp(got.row)
       IN reply' = <<Done("status", e, FALSE, "http", resp,
                             IF HasStore THEN 1 ELSE 0, 0, 0, 0, ~ok)>>
    /\ UNCHANGED uiVars
    /\ UNCHANGED <<data, risk, postgresUrl, sqliteOk, resendOn, initPending,
                   localDb, store, inflight, lastCall>>

\* Unsubscribe without the catch block: a failing DELETE ends the handler
\* before anything is written to res.
Unsubscribe_NoCatch(e, via, ok) ==
    /\ Serving /\ Idle
    /\ ok \/ HasStore
    /\ LET del == deleteSubscription(e, ok)
       IN /\ store' = del.rows
          /\ reply' = IF del.threw THEN << >>
                      ELSE <<Done("unsubscribe", e, FALSE, via, UnsubscribedResp,
                                  0, 0, IF HasStore THEN 1 ELSE 0, 0, ~ok)>>
          /\ lastCall' = <<Call("delete", e, FALSE, HasStore /\ ok,
                                Cardinality(store) - Cardinality(del.rows))>>
    /\ UNCHANGED uiVars
    /\ UNCHANGED <<data, risk, postgresUrl, sqliteOk, resendOn, initPending,
                   localDb, inflight>>

\* api.post("/unsubscribe") with body {email: e}
Unsubscribe(e, via, ok) ==
    /\ Serving /\ Idle
    /\ ok \/ HasStore
    /\ LET del == deleteSubscription(e, ok)
           resp == IF del.threw THEN DatabaseError ELSE UnsubscribedResp
       IN /\ store' = del.rows
          /\ reply' = <<Done("unsubscribe", e, FALSE, via, resp,
                                0, 0, IF HasStore THEN 1 ELSE 0, 0, ~ok)>>
          /\ lastCall' = <<Call("delete", e, FALSE, HasStore /\ ok,
                                Cardinality(store) - Cardinality(del.rows))>>
    /\ UNCHANGED uiVars
    /\ UNCHANGED <<data, risk, postgresUrl, sqliteOk, resendOn, initPending,
                   localDb, inflight>>

\* An HTTP client posts to /unsubscribe.
PostUnsubscribe(e, ok) == Unsubscribe(e, "http", ok)

\* App.handleUnsubscribe with e in the email field:
\* if (!email || !validateEmail(email)) return; then the POST.
HandleUnsubscribe(e, ok) ==
    /\ Len(e) > 0
    /\ validateEmail(e)
    /\ Unsubscribe(e, "ui", ok)

\* Notify that tests for the missing mail key before it saves.
Notify_SimulatesBeforeSaving(e, save, autoNotify, ok) ==
    /\ Serving /\ Idle
    /\ IF Len(e) = 0 \/ ~EmailRegexTest(e)
       THEN /\ ok
            /\ reply' = <<Done("notify", e, save, "http", InvalidEmail,
                                  0, 0, 0, 0, FALSE)>>
            /\ UNCHANGED <<store, inflight, lastCall>>
       ELSE IF ~resendOn
       THEN /\ ok
            /\ reply' = <<Done("notify", e, save, "http", Simulated,
                                  0, 0, 0, 0, FALSE)>>
            /\ UNCHANGED <<store, inflight, lastCall>>
       ELSE LET up == upsertSubscription(e, autoNotify, ok)
                writes == IF save /\ HasStore THEN 1 ELSE 0
            IN /\ ok \/ (save /\ HasStore)
               /\ IF save
                  THEN /\ store' = up.rows
                       /\ lastCall' = <<Call("upsert", e, autoNotify, HasStore /\ ok,
                                             IF HasStore /\ ok THEN 1 ELSE 0)>>
                  ELSE UNCHANGED <<store, lastCall>>
               /\ BagCardinality(inflight) < MaxInFlight
               /\ inflight' = inflight (+) SetToBag({[email |-> e, save |-> save,
                                                      writes |-> writes,
                                                      failed |-> ~ok]})
               /\ UNCHANGED <<reply>>
    /\ UNCHANGED uiVars
    /\ UNCHANGED <<data, risk, postgresUrl, sqliteOk, resendOn, initPending, localDb>>

\* api.post("/notify") with body {toEmail: e, saveEmail: save, autoNotify},
\* up to the call of resend.emails.send.
Notify(e, save, autoNotify, ok) ==
    /\ Serving /\ Idle
    /\ IF Len(e) = 0 \/ ~EmailRegexTest(e)
       THEN /\ ok
            /\ reply' = <<Done("notify", e, save, "http", InvalidEmail,
                                  0, 0, 0, 0, FALSE)>>
                    /\ UNCHANGED <<store, inflight, lastCall>>
       ELSE LET up == upsertSubscription(e, autoNotify, ok)
                writes == IF save /\ HasStore THEN 1 ELSE 0
            IN /\ ok \/ (save /\ HasStore)
               /\ IF save
                  THEN /\ store' = up.rows
                       /\ lastCall' = <<Call("upsert", e, autoNotify, HasStore /\ ok,
                                             IF HasStore /\ ok THEN 1 ELSE 0)>>
                  ELSE UNCHANGED <<store, lastCall>>
               /\ IF ~resendOn
                  THEN /\ reply' = <<Done("notify", e, save, "http", Simulated,
                                             0, writes, 0, 0, ~ok)>>
                                          /\ UNCHANGED inflight
                  ELSE /\ BagCardinality(inflight) < MaxInFlight
                       /\ inflight' = inflight (+) SetToBag({[email |-> e, save |-> save,
                                                              writes |-> writes,
                                                              failed |-> ~ok]})
                       /\ UNCHANGED <<reply>>
    /\ UNCHANGED uiVars
    /\ UNCHANGED <<data, risk, postgresUrl, sqliteOk, resendOn, initPending, localDb>>

\* What resend.emails.send can do: resolve with data, resolve with an error
\* whose message mentions onboarding, is another text, is empty or is not a
\* string, or reject.
SendOutcomes == {"data", "onboarding", "message", "empty", "nomessage", "reject"}

\* The rest of api.post("/notify") once send has settled.
SendResult(outcome) ==
    CASE outcome = "data" -> Sent
      [] outcome = "onboarding" -> OnboardingLimit
      [] outcome = "message" -> ProviderError("provider message")
      [] outcome = "empty" -> ProviderError("Failed to send email")
      [] outcome = "nomessage" -> InternalError
      [] outcome = "reject" -> InternalError

\* MailSettles in which a failed subscription write fails the request.
MailSettles_WriteFailureFails(r, outcome) ==
    /\ Idle
    /\ BagIn(r, inflight)
    /\ inflight' = inflight (-) SetToBag({r})
    /\ reply' = <<[Done("notify", r.email, r.save, "http",
                           IF r.failed THEN InternalError ELSE SendResult(outcome),
                           0, r.writes, 0, 1, r.failed)
                      EXCEPT !.outcome = outcome]>>
    /\ UNCHANGED uiVars
    /\ UNCHANGED <<data, risk, postgresUrl, sqliteOk, resendOn, initPending,
                   localDb, store, lastCall>>

\* MailSettles that removes the saved record again when the send failed.
MailSettles_RollsBack(r, outcome) ==
    /\ Idle
    /\ BagIn(r, inflight)
    /\ inflight' = inflight (-) SetToBag({r})
    /\ reply' = <<[Done("notify", r.email, r.save, "http", SendResult(outcome),
                           0, r.writes, 0, 1, r.failed)
                      EXCEPT !.outcome = outcome]>>
    /\ store' = IF outcome = "data" THEN store ELSE DeleteRows(store, r.email)
    /\ UNCHANGED uiVars
    /\ UNCHANGED <<data, risk, postgresUrl, sqliteOk, resendOn, initPending,
                   localDb, lastCall>>

\* MailSettles that answers a failed send and keeps it queued for a retry.
MailSettles_RetriesAfterFailure(r, outcome) ==
    /\ Idle
    /\ BagIn(r, inflight)
    /\ inflight' = IF outcome = "data" THEN inflight (-) SetToBag({r}) ELSE inflight
    /\ reply' = <<[Done("notify", r.email, r.save, "http", SendResult(outcome),
                           0, r.writes, 0, 1, r.failed)
                      EXCEPT !.outcome = outcome]>>
    /\ UNCHANGED uiVars
    /\ UNCHANGED <<data, risk, postgresUrl, sqliteOk, resendOn, initPending,
                   localDb, store, lastCall>>

\* MailSettles that stamps the record after a successful send.
MailSettles_StampsRecord(r, outcome) ==
    /\ Idle
    /\ BagIn(r, inflight)
    /\ inflight' = inflight (-) SetToBag({r})
    /\ reply' = <<[Done("notify", r.email, r.save, "http", SendResult(outcome),
                           0, r.writes, 0, 1, r.failed)
                      EXCEPT !.outcome = outcome]>>
    /\ store' = IF outcome = "data"
                THEN {IF x.email = r.email
                      THEN [x EXCEPT !.last_notified_at = "NOW"] ELSE x : x \in store}
                ELSE store
    /\ UNCHANGED uiVars
    /\ UNCHANGED <<data, risk, postgresUrl, sqliteOk, resendOn, initPending,
                   localDb, lastCall>>

MailSettles(r, outcome) ==
    /\ Idle
    /\ BagIn(r, inflight)
    /\ inflight' = inflight (-) SetToBag({r})
    /\ reply' = <<[Done("notify", r.email, r.save, "http", SendResult(outcome),
                           0, r.writes, 0, 1, r.failed)
                      EXCEPT !.outcome = outcome]>>
    /\ UNCHANGED uiVars
    /\ UNCHANGED <<data, risk, postgresUrl, sqliteOk, resendOn, initPending,
                   localDb, store, lastCall>>

\* The response written by res.json / res.status(...).json has left.
Deliver ==
    /\ Len(reply) = 1
    /\ reply' = << >>
    /\ UNCHANGED uiVars
    /\ UNCHANGED <<data, risk, postgresUrl, sqliteOk, resendOn, initPending,
                   localDb, store, inflight, lastCall>>

Next ==
    \/ InitDBThen
    \/ Deliver
    \/ \E e \in RouteParams, ok \in BOOLEAN : GetStatus(e, ok)
    \/ \E e \in AllEmails, ok \in BOOLEAN : PostUnsubscribe(e, ok)
    \/ \E e \in AllEmails, ok \in BOOLEAN : HandleUnsubscribe(e, ok)
    \/ \E e \in AllEmails, save \in BOOLEAN, autoNotify \in BOOLEAN, ok \in BOOLEAN :
          Notify(e, save, autoNotify, ok)
    \/ \E r \in BagToSet(inflight), outcome \in SendOutcomes : MailSettles(r, outcome)

Spec == Init /\ [][Next]_vars

----------------------------------------------------------------------------
(* Client: loading the weather (App, part_000)                             *)

\* Two results of /api/weather: one that matches no rule and one that
\* matches all four.
CalmSnapshot == [temp |-> 20, humidity |-> 50, windSpeed |-> 3, aqiList |-> <<1>>]
HarshSnapshot == [temp |-> 5, humidity |-> 80, windSpeed |-> 12, aqiList |-> <<4>>]
UiSnapshots == {CalmSnapshot, HarshSnapshot}

DeniedNotice == "Location access denied. Showing New York. Use search for your city."
UnsupportedNotice == "Geolocation not supported. Showing New York."

\* What the search field holds.
Queries == {"", "Oslo"}

\* Weather requests and getCurrentPosition calls that may be under way.
MaxFetches == 2
MaxGeo == 1

\* How a request of the page ends: "ok" a 2xx response with a JSON body,
\* "status" another status with {error: ...}, "nobody" another status whose
\* body does not parse, "throw" fetch rejects.
FetchOutcomes == {"ok", "status", "nobody", "throw"}

\* The continuation of a page request that has just run.
Event(op, e, origin, outcome) ==
    [op |-> op, email |-> e, origin |-> origin, outcome |-> outcome]

\* The message caught by fetchWeather (kind "weather") or searchCity
\* (kind "search"): getErrorMessage's result, or that of the rejection.
WeatherError(kind, outcome) ==
    CASE outcome = "status" -> "upstream message"
      [] outcome = "nobody" ->
            IF kind = "weather" THEN "Failed to fetch weather data (502 Bad Gateway)"
            ELSE "City not found (502 Bad Gateway)"
      [] outcome = "throw" -> "Failed to fetch"

\* fetchWeather(lat, lon) up to its await: setLoading(true) and the request.
\* origin tells the caller: the position callback, the denial callback or
\* the branch without geolocation.
CallFetchWeather(origin) ==
    /\ BagCardinality(fetches) < MaxFetches
    /\ loading' = TRUE
    /\ fetches' = fetches (+) SetToBag({[kind |-> "weather", origin |-> origin]})

\* handleGeolocation()
HandleGeolocation ==
    /\ IF geoSupported
       THEN /\ geoPending < MaxGeo
            /\ loading' = TRUE
            /\ geoPending' = geoPending + 1
            /\ UNCHANGED <<fetches, uiError>>
       ELSE /\ CallFetchWeather("unsupported")
            /\ uiError' = UnsupportedNotice
            /\ UNCHANGED geoPending
    /\ UNCHANGED <<data, risk, geoSupported, searchQuery, lastEvent>>
    /\ UNCHANGED serverVars
    /\ UNCHANGED alertVars

\* useEffect(() => { handleGeolocation(); }, [handleGeolocation])
MountEffect ==
    /\ ~mounted
    /\ mounted' = TRUE
    /\ HandleGeolocation

\* The locate button: onClick={handleGeolocation}
ClickLocate ==
    /\ mounted
    /\ UNCHANGED mounted
    /\ HandleGeolocation

\* The success callback of getCurrentPosition.
GeoPosition ==
    /\ geoPending > 0
    /\ geoPending' = geoPending - 1
    /\ CallFetchWeather("position")
    /\ UNCHANGED <<data, risk, mounted, geoSupported, uiError, searchQuery, lastEvent>>
    /\ UNCHANGED serverVars
    /\ UNCHANGED alertVars

\* The error callback of getCurrentPosition: fetchWeather for New York,
\* then setError.
GeoDenied ==
    /\ geoPending > 0
    /\ geoPending' = geoPending - 1
    /\ CallFetchWeather("denied")
    /\ uiError' = DeniedNotice
    /\ UNCHANGED <<data, risk, mounted, geoSupported, searchQuery, lastEvent>>
    /\ UNCHANGED serverVars
    /\ UNCHANGED alertVars

\* fetchWeather from the end of its await: the request f ends with outcome
\* and, when "ok", with result d.
FetchWeatherReturns(f, outcome, d) ==
    /\ BagIn(f, fetches) /\ f.kind = "weather"
    /\ fetches' = fetches (-) SetToBag({f})
    /\ IF outcome = "ok"
       THEN /\ data' = <<d>>
            /\ risk' = RiskOf(data')
            /\ uiError' = ""
       ELSE /\ uiError' = WeatherError("weather", outcome)
            /\ UNCHANGED <<data, risk>>
    /\ loading' = FALSE
    /\ lastEvent' = <<Event("fetchWeather", << >>, f.origin, outcome)>>
    /\ UNCHANGED <<mounted, geoSupported, searchQuery, geoPending>>
    /\ UNCHANGED serverVars
    /\ UNCHANGED alertVars

\* The search field: onChange={(e) => setSearchQuery(e.target.value)}
TypeQuery(q) ==
    /\ mounted
    /\ q # searchQuery
    /\ searchQuery' = q
    /\ UNCHANGED <<data, risk, mounted, geoSupported, loading, uiError, geoPending,
                   fetches, lastEvent>>
    /\ UNCHANGED serverVars
    /\ UNCHANGED alertVars

\* searchCity(e) up to its await.
SearchCity ==
    /\ mounted
    /\ searchQuery # ""
    /\ BagCardinality(fetches) < MaxFetches
    /\ loading' = TRUE
    /\ fetches' = fetches (+) SetToBag({[kind |-> "search", origin |-> "form"]})
    /\ UNCHANGED <<data, risk, mounted, geoSupported, uiError, searchQuery, geoPending,
                   lastEvent>>
    /\ UNCHANGED serverVars
    /\ UNCHANGED alertVars

\* searchCity from the end of its await.
SearchReturns(f, outcome, d) ==
    /\ BagIn(f, fetches) /\ f.kind = "search"
    /\ fetches' = fetches (-) SetToBag({f})
    /\ IF outcome = "ok"
       THEN /\ data' = <<d>>
            /\ risk' = RiskOf(data')
            /\ uiError' = ""
            /\ searchQuery' = ""
       ELSE /\ uiError' = WeatherError("search", outcome)
            /\ UNCHANGED <<data, risk, searchQuery>>
    /\ loading' = FALSE
    /\ lastEvent' = <<Event("searchCity", << >>, f.origin, outcome)>>
    /\ UNCHANGED <<mounted, geoSupported, geoPending>>
    /\ UNCHANGED serverVars
    /\ UNCHANGED alertVars

\* The close button of the error banner: onClick={() => setError(null)}
DismissError ==
    /\ uiError # ""
    /\ uiError' = ""
    /\ UNCHANGED <<data, risk, mounted, geoSupported, loading, searchQuery, geoPending,
                   fetches, lastEvent>>
    /\ UNCHANGED serverVars
    /\ UNCHANGED alertVars

NextWeather ==
    \/ MountEffect
    \/ ClickLocate
    \/ GeoPosition
    \/ GeoDenied
    \/ \E f \in BagToSet(fetches), outcome \in FetchOutcomes, d \in UiSnapshots :
          FetchWeatherReturns(f, outcome, d)
    \/ \E q \in Queries : TypeQuery(q)
    \/ SearchCity
    \/ \E f \in BagToSet(fetches), outcome \in FetchOutcomes, d \in UiSnapshots :
          SearchReturns(f, outcome, d)
    \/ DismissError

\* The page in a browser with or without geolocation; the server is left
\* out (no database, no mail key).
InitWeather ==
    /\ InitClient /\ InitServer /\ InitUi
    /\ geoSupported \in BOOLEAN
    /\ ~postgresUrl /\ ~sqliteOk /\ ~resendOn

SpecWeather == InitWeather /\ [][NextWeather]_vars

----------------------------------------------------------------------------
(* Client: the alert form of the page (App, part_000) and the routes it    *)
(* calls.  A request of the page is a record in checks, notifies or        *)
(* unsubs; resp is empty until the route has answered it.  The route       *)
(* handles a request in one step: the interleavings inside api.ts are      *)
(* those of Spec.                                                          *)

\* A second address, of another mailbox.
EmailOther == <<"b", "@", "x", ".", "c">>

\* What the email field holds.
UiEmails == {EmailNone, EmailLower, EmailOther, EmailNoDot}

\* Requests of each kind the page may have under way.
MaxChecks == 2
MaxNotifies == 2
MaxUnsubs == 1

\* How a response reaches the page: "json" the route's answer, "html200" /
\* "html502" a 200 / 502 answer whose body is not JSON (a gateway in
\* between), "throw" fetch rejects.
NetOutcomes == {"json", "html200", "html502", "throw"}

\* { show: true, msg, type }
Notification(type, msg) == [type |-> type, msg |-> msg]

\* getErrorMessage(response, fallback) for a JSON body.
getErrorMessage(resp, fallback) == IF resp.error # "" THEN resp.error ELSE fallback

\* api.get("/subscription/:email"): the answer.
SubscriptionRoute(e, ok) ==
    LET g == getSubscription(e, ok)
    IN  IF g.threw THEN StatusUnavailable ELSE StatusResp(g.row)

\* api.post("/notify") with saveEmail: the table and the answer.
NotifyRoute(e, an, ok, outcome) ==
    IF ~EmailRegexTest(e)
    THEN [rows |-> store, resp |-> InvalidEmail]
    ELSE [rows |-> upsertSubscription(e, an, ok).rows,
          resp |-> IF ~resendOn THEN Simulated ELSE SendResult(outcome)]

\* api.post("/unsubscribe"): the table and the answer.
UnsubscribeRoute(e, ok) ==
    LET d == deleteSubscription(e, ok)
    IN  [rows |-> d.rows, resp |-> IF d.threw THEN DatabaseError ELSE UnsubscribedResp]

\* What the page shows of a response: settled by fetch (a response or a
\* rejection) and by response.json().
IsOk(r, net) == net = "html200" \/ (net = "json" /\ r.resp[1].status = 200)
Arrives(r, net) == net = "json" => Len(r.resp) = 1

\* The email field: onChange, setEmail then checkSubscription up to its
\* await when the value is a valid address.
ChangeEmail(e) ==
    /\ e # email
    /\ email' = e
    /\ IF validateEmail(e) /\ validateEmail_AtOnly(e)
       THEN /\ BagCardinality(checks) < MaxChecks
            /\ checks' = checks (+) SetToBag({[email |-> e, resp |-> << >>]})
       ELSE UNCHANGED checks
    /\ UNCHANGED <<sendingEmail, uiAutoNotify, isSubscribed, showNotification,
                   notifies, unsubs>>
    /\ UNCHANGED <<data, risk, lastEvent>>
    /\ UNCHANGED serverVars
    /\ UNCHANGED weatherVars

\* The route answers the check c; ok: its SELECT does not fail.
ServeCheck(c, ok) ==
    /\ Serving
    /\ BagIn(c, checks) /\ Len(c.resp) = 0
    /\ checks' = (checks (-) SetToBag({c}))
                    (+) SetToBag({[c EXCEPT !.resp = <<SubscriptionRoute(c.email, ok)>>]})
    /\ UNCHANGED <<email, sendingEmail, uiAutoNotify, isSubscribed, showNotification,
                   notifies, unsubs>>
    /\ UNCHANGED <<data, risk, lastEvent>>
    /\ UNCHANGED serverVars
    /\ UNCHANGED weatherVars

\* checkSubscription from the end of its await.
CheckReturns(c, net) ==
    /\ BagIn(c, checks) /\ Arrives(c, net)
    /\ checks' = checks (-) SetToBag({c})
    /\ IF net = "json"
       THEN /\ isSubscribed' = c.resp[1].subscribed
            /\ uiAutoNotify' = c.resp[1].autoNotify
       ELSE UNCHANGED <<isSubscribed, uiAutoNotify>>
    /\ UNCHANGED <<email, sendingEmail, showNotification, notifies, unsubs>>
    /\ UNCHANGED <<data, risk, lastEvent>>
    /\ UNCHANGED serverVars
    /\ UNCHANGED weatherVars

\* The switch: onClick={() => setAutoNotify(!autoNotify)}
ToggleAutoNotify ==
    /\ uiAutoNotify' = ~uiAutoNotify
    /\ UNCHANGED <<email, sendingEmail, isSubscribed, showNotification, checks,
                   notifies, unsubs>>
    /\ UNCHANGED <<data, risk, lastEvent>>
    /\ UNCHANGED serverVars
    /\ UNCHANGED weatherVars

\* The send button that stays enabled while a send is under way.
NotifyButtonEnabled_IgnoresSending == risk.level # "Low" /\ email # EmailNone

\* The send button: disabled={sendingEmail || risk.level === "Low" || !email}
NotifyButtonEnabled == ~sendingEmail /\ risk.level # "Low" /\ email # EmailNone

\* handleNotify() up to its await, from a click on the send button.
handleNotify ==
    /\ NotifyButtonEnabled
    /\ IF email = EmailNone \/ ~validateEmail(email)
       THEN /\ showNotification' =
                  <<Notification("error", "Please enter a valid email address.")>>
            /\ UNCHANGED <<sendingEmail, notifies>>
       ELSE IF Len(data) = 0
       THEN UNCHANGED <<showNotification, sendingEmail, notifies>>
       ELSE /\ BagCardinality(notifies) < MaxNotifies
            /\ sendingEmail' = TRUE
            /\ notifies' = notifies (+) SetToBag({[email |-> email,
                                                   autoNotify |-> uiAutoNotify,
                                                   resp |-> << >>]})
            /\ UNCHANGED showNotification
    /\ UNCHANGED <<email, uiAutoNotify, isSubscribed, checks, unsubs>>
    /\ UNCHANGED <<data, risk, lastEvent>>
    /\ UNCHANGED serverVars
    /\ UNCHANGED weatherVars

\* The route answers the notify n; ok: its INSERT does not fail, outcome:
\* what resend.emails.send does.
ServeNotify(n, ok, outcome) ==
    /\ Serving
    /\ BagIn(n, notifies) /\ Len(n.resp) = 0
    /\ LET a == NotifyRoute(n.email, n.autoNotify, ok, outcome)
       IN  /\ store' = a.rows
           /\ notifies' = (notifies (-) SetToBag({n}))
                             (+) SetToBag({[n EXCEPT !.resp = <<a.resp>>]})
    /\ UNCHANGED <<email, sendingEmail, uiAutoNotify, isSubscribed, showNotification,
                   checks, unsubs>>
    /\ UNCHANGED <<data, risk, lastEvent>>
    /\ UNCHANGED <<postgresUrl, sqliteOk, resendOn, initPending, localDb, inflight,
                   reply, lastCall>>
    /\ UNCHANGED weatherVars

\* handleNotify whose setSendingEmail(false) ends the try block instead of
\* standing in a finally block.
NotifyReturns_NoFinally(n, net) ==
    /\ BagIn(n, notifies) /\ Arrives(n, net)
    /\ notifies' = notifies (-) SetToBag({n})
    /\ IF net = "json" /\ IsOk(n, net)
       THEN /\ showNotification' = <<Notification("success", "Alert sent successfully!")>>
            /\ isSubscribed' = TRUE
            /\ sendingEmail' = FALSE
       ELSE /\ showNotification' = <<Notification("error", "Failed to send alert")>>
            /\ UNCHANGED <<isSubscribed, sendingEmail>>
    /\ UNCHANGED <<email, uiAutoNotify, checks, unsubs>>
    /\ UNCHANGED <<data, risk, lastEvent>>
    /\ UNCHANGED serverVars
    /\ UNCHANGED weatherVars

\* handleNotify from the end of its await.
NotifyReturns(n, net) ==
    /\ BagIn(n, notifies) /\ Arrives(n, net)
    /\ notifies' = notifies (-) SetToBag({n})
    /\ IF net = "json" /\ IsOk(n, net)
       THEN /\ showNotification' =
                  <<Notification("success",
                                 IF n.resp[1].simulated
                                 THEN "Alert simulated (Check server logs)"
                                 ELSE "Alert sent successfully!")>>
            /\ isSubscribed' = TRUE
       ELSE /\ showNotification' =
                  <<Notification("error",
                       CASE net = "json" -> getErrorMessage(n.resp[1], "Failed to send alert")
                         [] net = "html200" -> "Unexpected token"
                         [] net = "html502" -> "Failed to send alert (502 Bad Gateway)"
                         [] net = "throw" -> "Failed to fetch")>>
            /\ UNCHANGED isSubscribed
    /\ sendingEmail' = FALSE
    /\ UNCHANGED <<email, uiAutoNotify, checks, unsubs>>
    /\ UNCHANGED <<data, risk, lastEvent>>
    /\ UNCHANGED serverVars
    /\ UNCHANGED weatherVars

\* handleUnsubscribe() up to its await, from a click on the opt-out link,
\* which is rendered when isSubscribed.
handleUnsubscribe ==
    /\ isSubscribed
    /\ email # EmailNone /\ validateEmail(email)
    /\ BagCardinality(unsubs) < MaxUnsubs
    /\ unsubs' = unsubs (+) SetToBag({[email |-> email, resp |-> << >>]})
    /\ UNCHANGED <<email, sendingEmail, uiAutoNotify, isSubscribed, showNotification,
                   checks, notifies>>
    /\ UNCHANGED <<data, risk, lastEvent>>
    /\ UNCHANGED serverVars
    /\ UNCHANGED weatherVars

\* The route answers the unsubscribe u; ok: its DELETE does not fail.
ServeUnsubscribe(u, ok) ==
    /\ Serving
    /\ BagIn(u, unsubs) /\ Len(u.resp) = 0
    /\ LET a == UnsubscribeRoute(u.email, ok)
       IN  /\ store' = a.rows
           /\ unsubs' = (unsubs (-) SetToBag({u}))
                           (+) SetToBag({[u EXCEPT !.resp = <<a.resp>>]})
    /\ UNCHANGED <<email, sendingEmail, uiAutoNotify, isSubscribed, showNotification,
                   checks, notifies>>
    /\ UNCHANGED <<data, risk, lastEvent>>
    /\ UNCHANGED <<postgresUrl, sqliteOk, resendOn, initPending, localDb, inflight,
                   reply, lastCall>>
    /\ UNCHANGED weatherVars

\* handleUnsubscribe from the end of its await.
UnsubscribeReturns(u, net) ==
    /\ BagIn(u, unsubs) /\ Arrives(u, net)
    /\ unsubs' = unsubs (-) SetToBag({u})
    /\ IF IsOk(u, net)
       THEN /\ isSubscribed' = FALSE
            /\ showNotification' = <<Notification("success", "You have been unsubscribed.")>>
       ELSE IF net = "throw"
       THEN UNCHANGED <<isSubscribed, showNotification>>
       ELSE /\ showNotification' =
                  <<Notification("error",
                       IF net = "json"
                       THEN getErrorMessage(u.resp[1], "Failed to unsubscribe")
                       ELSE "Failed to unsubscribe (502 Bad Gateway)")>>
            /\ UNCHANGED isSubscribed
    /\ UNCHANGED <<email, sendingEmail, uiAutoNotify, checks, notifies>>
    /\ UNCHANGED <<data, risk, lastEvent>>
    /\ UNCHANGED serverVars
    /\ UNCHANGED weatherVars

\* setTimeout(() => setShowNotification(null), 5000)
NotificationTimeout ==
    /\ Len(showNotification) = 1
    /\ showNotification' = << >>
    /\ UNCHANGED <<email, sendingEmail, uiAutoNotify, isSubscribed, checks, notifies,
                   unsubs>>
    /\ UNCHANGED <<data, risk, lastEvent>>
    /\ UNCHANGED serverVars
    /\ UNCHANGED weatherVars

\* What the mail provider does for the page's sends: it accepts the mail or
\* refuses it with a message (the other refusals are those of Spec).
MailOutcomes == IF resendOn THEN {"data", "message"} ELSE {"data"}

\* The server in front of the page: SQLite, initDB resolved.
InitPageServer ==
    /\ postgresUrl = FALSE /\ sqliteOk = TRUE
    /\ resendOn \in BOOLEAN
    /\ initPending = FALSE
    /\ localDb = <<"db">>
    /\ inflight = EmptyBag
    /\ reply = << >>
    /\ lastCall = << >>

\* Tables that earlier sessions have left in asthmaguard.db.
Tables == {{}, {Row(EmailLower, 1)}, {Row(EmailLower, 0)},
           {Row(EmailLower, 1), Row(EmailOther, 0)}}

\* The email field and the subscription checks it starts.
NextChecks ==
    \/ \E e \in UiEmails : ChangeEmail(e)
    \/ \E c \in BagToSet(checks), ok \in BOOLEAN : ServeCheck(c, ok)
    \/ \E c \in BagToSet(checks), net \in NetOutcomes : CheckReturns(c, net)
    \/ ToggleAutoNotify

InitChecks ==
    /\ InitClient /\ InitUi /\ InitPageServer
    /\ geoSupported = TRUE
    /\ store \in Tables

SpecChecks == InitChecks /\ [][NextChecks]_vars

\* Sending and opting out for the address that is in the field.
NextAlerts ==
    \/ \E d \in UiSnapshots : SetData(d)
    \/ ToggleAutoNotify
    \/ handleNotify
    \/ \E n \in BagToSet(notifies), ok \in BOOLEAN, outcome \in MailOutcomes :
          ServeNotify(n, ok, outcome)
    \/ \E n \in BagToSet(notifies), net \in NetOutcomes : NotifyReturns(n, net)
    \/ handleUnsubscribe
    \/ \E u \in BagToSet(unsubs), ok \in BOOLEAN : ServeUnsubscribe(u, ok)
    \/ \E u \in BagToSet(unsubs), net \in NetOutcomes : UnsubscribeReturns(u, net)
    \/ NotificationTimeout

\* The page after the user has filled in the email field (or left it
\* empty), its checks answered by an empty table.
InitAlerts ==
    /\ InitClient /\ InitPageServer
    /\ mounted = FALSE /\ loading = TRUE /\ uiError = "" /\ searchQuery = ""
    /\ geoSupported = TRUE /\ geoPending = 0 /\ fetches = EmptyBag
    /\ email \in UiEmails
    /\ sendingEmail = FALSE /\ uiAutoNotify \in BOOLEAN /\ isSubscribed = FALSE
    /\ showNotification = << >>
    /\ checks = EmptyBag /\ notifies = EmptyBag /\ unsubs = EmptyBag
    /\ lastEvent = << >>
    /\ store = {}

SpecAlerts == InitAlerts /\ [][NextAlerts]_vars

\* A fetch of the page settles: the browser resolves or rejects the promise
\* of every request, so the continuation of handleNotify runs.
SpecAlertsLive ==
    SpecAlerts /\ WF_vars(\E n \in BagToSet(notifies), net \in NetOutcomes :
                             NotifyReturns(n, net))

----------------------------------------------------------------------------
(* Properties of the risk engine (checked under SpecRisk)                   *)

Loaded == Len(data) = 1

\* C1: for every snapshot with an AQI reading in 1..5 the level is the
\* threshold mapping (>=5 Extreme, >=3 High, >=1 Moderate, 0 Low) of the
\* additive score: +3 if AQI>=4 else +2 if AQI=3; +2 if temperature<10 else
\* +1 if temperature>32; +2 if humidity>75; +1 if wind>10.
C1_LevelIsThresholdOfScore ==
    (Loaded /\ Len(data[1].aqiList) = 1 /\ data[1].aqiList[1] \in 1..5) =>
        LET d == data[1]
            a == d.aqiList[1]
            score == (IF a >= 4 THEN 3 ELSE IF a = 3 THEN 2 ELSE 0)
                   + (IF d.temp < 10 THEN 2 ELSE IF d.temp > 32 THEN 1 ELSE 0)
                   + (IF d.humidity > 75 THEN 2 ELSE 0)
                   + (IF d.windSpeed > 10 THEN 1 ELSE 0)
        IN /\ risk.score = score
           /\ risk.level = CASE score >= 5 -> "Extreme"
                             [] score \in 3..4 -> "High"
                             [] score \in 1..2 -> "Moderate"
                             [] score = 0 -> "Low"

\* A snapshot scoring 3 (humidity and wind only) has been assessed as High.
C1_Witness ==
    /\ Loaded
    /\ data[1] = [temp |-> 20, humidity |-> 80, windSpeed |-> 12, aqiList |-> <<2>>]
    /\ risk.level = "High"

\* C2: for every snapshot passed to the risk computation, score = 0,
\* level = Low and triggers = ["None detected"] are equivalent.
C2_LowIffZeroIffNoneDetected ==
    Loaded =>
        /\ (risk.score = 0) <=> (risk.level = "Low")
        /\ (risk.level = "Low") <=> (risk.triggers = <<"None detected">>)

\* A snapshot matching no rule has been assessed.
C2_Witness ==
    /\ Loaded
    /\ data[1] = [temp |-> 20, humidity |-> 50, windSpeed |-> 3, aqiList |-> <<1>>]
    /\ risk.score = 0
    /\ risk.triggers = <<"None detected">>

\* C3: triggers and advice have the same length; each matched rule
\* contributes exactly one trigger and one advice entry, in the order AQI
\* rule, temperature rule, humidity rule, wind rule; and
\* {temp 5, humidity 80, wind 12, AQI 4} gives score 8, Extreme and the four
\* triggers Poor Air Quality, Cold Air, High Humidity, High Wind (Allergens).
C3_TriggersAdviceAligned ==
    Loaded =>
        LET d == data[1]
            a == AqiOf(d)
            Opt(c, x) == IF c THEN <<x>> ELSE << >>
            expected ==
                Opt(a >= 4, <<"Poor Air Quality", "Air quality is very poor">>)
             \o Opt(a = 3, <<"Moderate Air Pollution", "Air quality is moderate">>)
             \o Opt(d.temp < 10, <<"Cold Air", "Cold air can trigger bronchospasm">>)
             \o Opt(d.temp > 32, <<"Extreme Heat", "High heat can increase ozone levels">>)
             \o Opt(d.humidity > 75, <<"High Humidity", "High humidity can harbor mold and dust mites">>)
             \o Opt(d.windSpeed > 10, <<"High Wind (Allergens)", "Wind can stir up pollen and dust">>)
            AdviceOf == [t \in {"Poor Air Quality", "Moderate Air Pollution", "Cold Air",
                                "Extreme Heat", "High Humidity", "High Wind (Allergens)"} |->
                CASE t = "Poor Air Quality" ->
                       "Air quality is very poor. Avoid all outdoor activities and keep windows closed."
                  [] t = "Moderate Air Pollution" ->
                       "Air quality is moderate. Sensitive individuals should limit prolonged outdoor exertion."
                  [] t = "Cold Air" ->
                       "Cold air can trigger bronchospasm. Wear a scarf to warm the air you breathe."
                  [] t = "Extreme Heat" ->
                       "High heat can increase ozone levels. Stay in air-conditioned spaces."
                  [] t = "High Humidity" ->
                       "High humidity can harbor mold and dust mites. Use a dehumidifier."
                  [] t = "High Wind (Allergens)" ->
                       "Wind can stir up pollen and dust. Keep windows closed."]
        IN /\ Len(risk.triggers) = Len(risk.advice)
           /\ Len(expected) > 0 =>
                /\ Len(risk.triggers) = Len(expected)
                /\ \A i \in 1..Len(expected) :
                      /\ risk.triggers[i] = expected[i][1]
                      /\ risk.advice[i] = AdviceOf[expected[i][1]]
           /\ Len(expected) = 0 => Len(risk.triggers) = 1
           /\ (d.temp = 5 /\ d.humidity = 80 /\ d.windSpeed = 12 /\ d.aqiList = <<4>>) =>
                /\ risk.score = 8
                /\ risk.level = "Extreme"
                /\ risk.triggers = <<"Poor Air Quality", "Cold Air", "High Humidity",
                                     "High Wind (Allergens)">>

\* The example snapshot of the claim has been assessed, all four rules matching.
C3_Witness ==
    /\ Loaded
    /\ data[1] = [temp |-> 5, humidity |-> 80, windSpeed |-> 12, aqiList |-> <<4>>]
    /\ Len(risk.triggers) = 4
    /\ Len(risk.advice) = 4

\* C4: boundary exactness: AQI exactly 3 yields only "Moderate Air
\* Pollution" (+2) and AQI exactly 4 only "Poor Air Quality" (+3);
\* temperature exactly 10 and exactly 32 trigger neither "Cold Air" nor
\* "Extreme Heat"; humidity exactly 75 and wind exactly 10 trigger nothing.
C4_BoundaryExactness ==
    Loaded =>
        LET d == data[1]
            Has(t) == \E i \in 1..Len(risk.triggers) : risk.triggers[i] = t
            Count(t) == Cardinality({i \in 1..Len(risk.triggers) : risk.triggers[i] = t})
            AtBoundary == d.temp \in {10, 32} /\ d.humidity = 75 /\ d.windSpeed = 10
        IN /\ d.aqiList = <<3>> =>
                /\ Count("Moderate Air Pollution") = 1
                /\ ~Has("Poor Air Quality")
                /\ AtBoundary => risk.score = 2 /\ risk.triggers = <<"Moderate Air Pollution">>
           /\ d.aqiList = <<4>> =>
                /\ Count("Poor Air Quality") = 1
                /\ ~Has("Moderate Air Pollution")
                /\ AtBoundary => risk.score = 3 /\ risk.triggers = <<"Poor Air Quality">>
           /\ d.temp \in {10, 32} => ~Has("Cold Air") /\ ~Has("Extreme Heat")
           /\ d.humidity = 75 => ~Has("High Humidity")
           /\ d.windSpeed = 10 => ~Has("High Wind (Allergens)")
           /\ (AtBoundary /\ AqiOf(d) < 3) => risk.score = 0

\* A snapshot with every reading on its threshold has been assessed.
C4_Witness ==
    /\ Loaded
    /\ data[1] = [temp |-> 10, humidity |-> 75, windSpeed |-> 10, aqiList |-> <<3>>]
    /\ risk.score = 2

LevelRank(l) == CASE l = "Low" -> 0 [] l = "Moderate" -> 1 [] l = "High" -> 2 [] l = "Extreme" -> 3

\* d2 is d1 with the one reading f increased (an absent AQI has no order).
Raised(d1, d2, f) ==
    /\ \A g \in {"temp", "humidity", "windSpeed", "aqiList"} \ {f} : d1[g] = d2[g]
    /\ IF f = "aqiList"
       THEN Len(d1.aqiList) = 1 /\ Len(d2.aqiList) = 1 /\ d1.aqiList[1] < d2.aqiList[1]
       ELSE d1[f] < d2[f]

NeverLowers(f) ==
    (Loaded /\ Len(data') = 1 /\ Raised(data[1], data'[1], f)) =>
        /\ risk'.score >= risk.score
        /\ LevelRank(risk'.level) >= LevelRank(risk.level)

\* C5 as stated: holding the other three inputs fixed, increasing AQI,
\* temperature, humidity or wind speed never decreases the score nor the level.
C5_MonotonicAllFour ==
    [][\A f \in {"aqiList", "temp", "humidity", "windSpeed"} : NeverLowers(f)]_vars

\* C5 amended: holding the other inputs fixed, increasing AQI, humidity or
\* wind speed never decreases the score nor the level (temperature is not
\* monotonic: warming from below 10 into 10..32 removes the +2 of Cold Air).
C5_MonotonicAqiHumidityWind ==
    [][\A f \in {"aqiList", "humidity", "windSpeed"} : NeverLowers(f)]_vars

\* A snapshot with AQI, humidity and wind all above their thresholds has
\* been assessed, so that it was reached by raising each of them.
C5_Witness ==
    /\ Loaded
    /\ data[1] = [temp |-> 20, humidity |-> 76, windSpeed |-> 11, aqiList |-> <<4>>]
    /\ risk.score = 6

----------------------------------------------------------------------------
(* Properties of the subscription and notification routes (under Spec)     *)

\* The syntactic pattern in words: a non-empty local part, one "@", a
\* domain containing a dot, no whitespace and no second "@".
WellFormed(s) ==
    /\ Cardinality({i \in 1..Len(s) : s[i] = "@"}) = 1
    /\ \A i \in 1..Len(s) : s[i] # " "
    /\ \E i \in 2..Len(s) : s[i] = "@" /\ \E j \in (i + 1)..Len(s) : s[j] = "."

HasRow(rows, e) == \E r \in rows : r.email = e

\* This step sends the response of a request of kind op.
Completes(op) == Len(reply') = 1 /\ reply'[1].op = op

\* C6: requestNotification with an email that fails the pattern, or with no
\* email, returns InvalidEmail and performs no store write and no mail
\* dispatch, whatever saveSubscription and autoNotify are.
C6_InvalidEmailNoSideEffects ==
    [][(Completes("notify") /\ ~WellFormed(reply'[1].email)) =>
          /\ reply'[1].resp.status = 400
          /\ reply'[1].resp.error = "Please provide a valid email address."
          /\ ~reply'[1].resp.success
          /\ reply'[1].writes = 0
          /\ reply'[1].sends = 0
          /\ store' = store
          /\ lastCall' = lastCall
          /\ inflight' = inflight]_vars

\* A notify for an email without "@" and with saveEmail set has been
\* rejected while a database was there to write to.
C6_Witness ==
    /\ Len(reply) = 1
    /\ reply[1].op = "notify"
    /\ reply[1].email = EmailNoAt
    /\ reply[1].save
    /\ reply[1].resp = InvalidEmail
    /\ HasStore

\* The getStatus answered in this step reports (subscribed, autoNotify).
StatusAnswer(subscribed, autoNotify) ==
    /\ reply'[1].resp.subscribed = subscribed
    /\ reply'[1].resp.autoNotify = autoNotify

\* This step answers a getStatus for the email of the last store call.
StatusAfterCall ==
    /\ Completes("status")
    /\ Len(lastCall) = 1
    /\ lastCall[1].email = reply'[1].email

\* C7 as stated: on every backend, a getStatus(email) that follows
\* upsert(email, a) returns {subscribed:true, autoNotify:a}, and one that
\* follows unsubscribe(email) returns {subscribed:false, autoNotify:false}.
C7_RoundTripEveryBackend ==
    [][StatusAfterCall =>
          IF lastCall[1].op = "upsert"
          THEN StatusAnswer(TRUE, lastCall[1].autoNotify)
          ELSE StatusAnswer(FALSE, FALSE)]_vars

\* C7 amended: when the backend is Postgres or local SQLite and neither the
\* write nor the read statement fails, getStatus after upsert(email, a)
\* returns {true, a} and after unsubscribe(email) returns {false, false};
\* on the mock backend nothing is stored and getStatus returns {false,
\* false} after either, as it does when the read fails.
C7_RoundTripOnLiveStore ==
    [][/\ (StatusAfterCall /\ HasStore /\ lastCall[1].applied /\ ~reply'[1].failed) =>
             IF lastCall[1].op = "upsert"
             THEN StatusAnswer(TRUE, lastCall[1].autoNotify)
             ELSE StatusAnswer(FALSE, FALSE)
       /\ (StatusAfterCall /\ (~HasStore \/ reply'[1].failed)) =>
             StatusAnswer(FALSE, FALSE)]_vars

\* A record was upserted, then deleted by unsubscribe (one row removed),
\* then read: not subscribed.
C7_Witness ==
    /\ Len(reply) = 1 /\ Len(lastCall) = 1
    /\ reply[1].op = "status"
    /\ reply[1].email = lastCall[1].email
    /\ reply[1].reads = 1 /\ ~reply[1].failed
    /\ reply[1].resp = StatusResp(<< >>)
    /\ lastCall[1].op = "delete" /\ lastCall[1].applied /\ lastCall[1].changes = 1

\* C8: getStatus never fails the caller: for an absent record it returns
\* {subscribed:false, autoNotify:false}, and whenever the storage read fails
\* (on any backend) it returns {false, false} with a diagnostic flag,
\* never an error response.
C8_StatusDegradesWithFlag ==
    [][Completes("status") =>
          /\ reply'[1].resp.status = 200
          /\ ~HasRow(store, reply'[1].email) => StatusAnswer(FALSE, FALSE)
          /\ reply'[1].failed =>
                /\ StatusAnswer(FALSE, FALSE)
                /\ reply'[1].resp.error # ""]_vars

\* C9 as stated: every unsubscribe(email), on an email with or without a
\* record, returns success and leaves the store with no record for it.
C9_UnsubscribeAlwaysSucceeds ==
    [][Completes("unsubscribe") =>
          /\ reply'[1].resp.success
          /\ reply'[1].resp.status = 200
          /\ ~HasRow(store', reply'[1].email)]_vars

\* C9 amended: every unsubscribe(email) whose DELETE statement does not
\* fail, on an email with or without a record, returns success and leaves
\* no record for it; when the DELETE fails the call returns the error
\* "Database error" (status 500) and the store is unchanged.
C9_UnsubscribeIdempotentUnlessDeleteFails ==
    [][Completes("unsubscribe") =>
          IF reply'[1].failed
          THEN /\ reply'[1].resp.status = 500
               /\ reply'[1].resp.error = "Database error"
               /\ ~reply'[1].resp.success
               /\ store' = store
          ELSE /\ reply'[1].resp.success
               /\ reply'[1].resp.status = 200
               /\ reply'[1].resp.error = ""
               /\ ~HasRow(store', reply'[1].email)
               /\ \A r \in store : r.email # reply'[1].email => r \in store']_vars

\* An unsubscribe ran its DELETE against a database that held no record
\* for the email (no row removed), after an unsubscribe had removed it, and
\* returned success.
C9_Witness ==
    /\ Len(reply) = 1 /\ Len(lastCall) = 1
    /\ reply[1].op = "unsubscribe"
    /\ reply[1].email = EmailLower
    /\ reply[1].resp = UnsubscribedResp
    /\ reply[1].deletes = 1
    /\ lastCall[1].op = "delete" /\ lastCall[1].email = EmailLower
    /\ lastCall[1].applied /\ lastCall[1].changes = 0

\* C10 as stated: unsubscribe called with a syntactically invalid email
\* issues no delete against the store and surfaces no error.
C10_UnsubscribeValidatesFirst ==
    [][(Completes("unsubscribe") /\ ~WellFormed(reply'[1].email)) =>
          /\ reply'[1].deletes = 0
          /\ reply'[1].resp.status = 200
          /\ reply'[1].resp.error = ""]_vars

\* C10 amended: only the client's handleUnsubscribe validates the email: it
\* sends no request for a syntactically invalid email.  The /unsubscribe
\* route does not validate: given an invalid email it issues the DELETE
\* whenever there is a database, which removes no row, and returns success
\* unless the statement fails.
C10_OnlyClientValidatesUnsubscribe ==
    [][/\ (Completes("unsubscribe") /\ reply'[1].via = "ui") =>
             WellFormed(reply'[1].email)
       /\ (Completes("unsubscribe") /\ ~WellFormed(reply'[1].email)) =>
             /\ reply'[1].via = "http"
             /\ reply'[1].deletes = (IF HasStore THEN 1 ELSE 0)
             /\ lastCall'[1].op = "delete"
             /\ lastCall'[1].email = reply'[1].email
             /\ lastCall'[1].changes = 0
             /\ store' = store
             /\ reply'[1].resp =
                   (IF reply'[1].failed THEN DatabaseError ELSE UnsubscribedResp)]_vars

\* The route ran a DELETE for an email without "@" and returned success.
C10_Witness ==
    /\ Len(reply) = 1
    /\ reply[1].op = "unsubscribe"
    /\ reply[1].via = "http"
    /\ reply[1].email = EmailNoAt
    /\ reply[1].deletes = 1
    /\ reply[1].resp = UnsubscribedResp

\* C11: when the mail dispatcher is not configured, every
\* requestNotification with a valid email returns Simulated (success with
\* the simulated flag, never an error), makes no dispatch call, and still
\* calls the subscription upsert when saveSubscription is true.
C11_SimulatedWhenUnconfigured ==
    [][/\ ~resendOn => inflight' = EmptyBag
       /\ (Completes("notify") /\ ~resendOn /\ WellFormed(reply'[1].email)) =>
             /\ reply'[1].resp.status = 200
             /\ reply'[1].resp.success
             /\ reply'[1].resp.simulated
             /\ reply'[1].resp.error = ""
             /\ reply'[1].sends = 0
             /\ reply'[1].outcome = "none"
             /\ reply'[1].save =>
                   /\ reply'[1].writes = (IF HasStore THEN 1 ELSE 0)
                   /\ Len(lastCall') = 1
                   /\ lastCall'[1].op = "upsert"
                   /\ lastCall'[1].email = reply'[1].email
                   /\ (HasStore /\ ~reply'[1].failed) =>
                         Row(reply'[1].email, IF lastCall'[1].autoNotify THEN 1 ELSE 0)
                            \in store'
             /\ ~reply'[1].save => store' = store /\ lastCall' = lastCall]_vars

\* Without a mail key a notify with saveEmail was answered Simulated and
\* its record is in the database.
C11_Witness ==
    /\ ~resendOn
    /\ Len(reply) = 1
    /\ reply[1].op = "notify"
    /\ reply[1].email = EmailLower
    /\ reply[1].save
    /\ reply[1].writes = 1
    /\ reply[1].resp.simulated
    /\ HasRow(store, EmailLower)

\* C12: for a valid email with saveSubscription true, a failing store write
\* does not block the send: the request still reaches the mail step, and
\* its result is the one the dispatcher determines (Simulated when it is
\* not configured, Sent when the send returns data, Failed otherwise),
\* whether or not the write failed.
C12_WriteFailureDoesNotBlockSend ==
    [][/\ (Completes("notify") /\ WellFormed(reply'[1].email)) =>
             /\ resendOn <=> reply'[1].sends = 1
             /\ resendOn <=> reply'[1].outcome # "none"
             /\ reply'[1].resp.success <=> reply'[1].outcome \in {"none", "data"}
             /\ reply'[1].resp.simulated <=> reply'[1].outcome = "none"
             /\ reply'[1].resp = (IF resendOn THEN SendResult(reply'[1].outcome)
                                              ELSE Simulated)
       /\ (/\ lastCall' # lastCall
           /\ lastCall'[1].op = "upsert"
           /\ HasStore /\ ~lastCall'[1].applied) =>
             IF resendOn
             THEN /\ BagCardinality(inflight') = BagCardinality(inflight) + 1
                  /\ \E r \in BagToSet(inflight') :
                        r.email = lastCall'[1].email /\ r.save /\ r.failed
             ELSE /\ Completes("notify")
                  /\ reply'[1].failed
                  /\ reply'[1].resp.simulated]_vars

\* A notify whose subscription write failed was sent all the same.
C12_Witness ==
    /\ Len(reply) = 1
    /\ reply[1].op = "notify"
    /\ reply[1].save
    /\ reply[1].writes = 1
    /\ reply[1].failed
    /\ reply[1].sends = 1
    /\ reply[1].outcome = "data"
    /\ reply[1].resp.success

\* C13: a mail-dispatch failure is returned as a Failed result, never as a
\* success: a provider error whose message mentions onboarding gives the
\* policy-restriction message with status 403; any other provider error gives
\* Failed with the provider's message when there is one and with "Failed to
\* send email" when there is none.
C13_MailFailuresDistinguished ==
    [][(Completes("notify") /\ reply'[1].outcome \notin {"none", "data"}) =>
          /\ ~reply'[1].resp.success
          /\ reply'[1].resp.status >= 400
          /\ reply'[1].outcome = "onboarding" =>
                /\ reply'[1].resp.status = 403
                /\ reply'[1].resp.error \notin {"", "provider message",
                                               "Failed to send email",
                                               "Internal server error"}
          /\ reply'[1].outcome = "message" =>
                reply'[1].resp.error = "provider message"
          /\ reply'[1].outcome \in {"empty", "nomessage"} =>
                reply'[1].resp.error = "Failed to send email"]_vars

\* C14 as stated: a requestNotification whose result is Failed leaves the
\* subscription store as it was before the call (it has applied no write).
C14_FailedNotifyWritesNothing ==
    [][(Completes("notify") /\ ~reply'[1].resp.success) =>
          (reply'[1].writes = 0 \/ reply'[1].failed)]_vars

\* C14 amended: a record is created or updated by every requestNotification
\* with a valid email and saveSubscription true whose write is applied; the
\* write is made before the mail step and the result of the send (Sent or
\* Failed) changes nothing in the store; a requestNotification without
\* saveSubscription leaves the store as it was; a record is removed only by
\* unsubscribe.
C14_RecordWrittenBeforeSend ==
    [][/\ \A e \in AllEmails :
             /\ (HasRow(store, e) /\ ~HasRow(store', e)) =>
                   Completes("unsubscribe") /\ reply'[1].email = e
             /\ (HasRow(store', e) /\ SelectRow(store', e) # SelectRow(store, e)) =>
                   /\ Len(lastCall') = 1
                   /\ lastCall'[1].op = "upsert"
                   /\ lastCall'[1].email = e
                   /\ lastCall'[1].applied
                   /\ Completes("notify") => reply'[1].sends = 0
       /\ (lastCall' # lastCall /\ lastCall'[1].op = "upsert" /\ lastCall'[1].applied) =>
             /\ Row(lastCall'[1].email, IF lastCall'[1].autoNotify THEN 1 ELSE 0) \in store'
             /\ IF resendOn
                THEN BagCardinality(inflight') = BagCardinality(inflight) + 1
                ELSE Completes("notify")
       /\ (Completes("notify") /\ reply'[1].sends = 1) => store' = store
       /\ (Completes("notify") /\ ~reply'[1].save) => store' = store]_vars

\* A notify with saveEmail failed at the mail provider and its record is in
\* the database.
C14_Witness ==
    /\ Len(reply) = 1
    /\ reply[1].op = "notify"
    /\ reply[1].email = EmailLower
    /\ reply[1].save
    /\ reply[1].writes = 1
    /\ ~reply[1].failed
    /\ reply[1].outcome = "message"
    /\ ~reply[1].resp.success
    /\ HasRow(store, EmailLower)

\* The email lower-cased.
LowerChar(c) == IF c = "A" THEN "a" ELSE c
Normalized(s) == [i \in 1..Len(s) |-> LowerChar(s[i])]
SameKey(a, b) == Normalized(a) = Normalized(b)

\* C15: the subscription key is the lower-cased email: getStatus reports
\* subscribed exactly when a record exists for an email that differs from
\* the asked one at most in letter case, unsubscribe leaves no such record,
\* and the store never holds two records differing only in letter case.
C15_KeyIsLowerCasedEmail ==
    [][/\ (Completes("status") /\ HasStore /\ ~reply'[1].failed) =>
             (reply'[1].resp.subscribed <=>
                 \E r \in store : SameKey(r.email, reply'[1].email))
       /\ (Completes("unsubscribe") /\ ~reply'[1].failed) =>
             ~\E r \in store' : SameKey(r.email, reply'[1].email)
       /\ \A a, b \in store' : SameKey(a.email, b.email) => a = b]_vars

\* The record of email b is not the same before and after this step.
RecordChanges(b) == SelectRow(store', b) # SelectRow(store, b)

\* C16: an upsert (via requestNotification) or unsubscribe for email A, in
\* any interleaving with other requests, leaves the presence and the
\* autoNotify flag of every other email's record unchanged: a step changes
\* the record of at most one email, the one its store call names.
C16_OtherEmailsUntouched ==
    [][\A b \in AllEmails :
          RecordChanges(b) =>
             /\ Len(lastCall') = 1
             /\ lastCall'[1].email = b
             /\ Completes("unsubscribe") => reply'[1].email = b
             /\ Completes("notify") => reply'[1].email = b
             /\ \A c \in AllEmails \ {b} : ~RecordChanges(c)]_vars

\* The record of one email was removed by unsubscribe while the record of
\* another email, saved with autoNotify false, is still there.
C16_Witness ==
    /\ Len(lastCall) = 1
    /\ lastCall[1].op = "delete"
    /\ lastCall[1].email = EmailLower
    /\ lastCall[1].changes = 1
    /\ Row(EmailUpper, 0) \in store

\* No two records carry the same email.
UniqueKey == \A a, b \in store : a.email = b.email => a = b

\* The record of the email of the last executed write is what that write
\* made it.
LastWriteWins ==
    (Len(lastCall) = 1 /\ lastCall[1].applied) =>
        {r \in store : r.email = lastCall[1].email} =
            (IF lastCall[1].op = "upsert"
             THEN {Row(lastCall[1].email, IF lastCall[1].autoNotify THEN 1 ELSE 0)}
             ELSE {})

\* C17: for any interleaving of requestNotification(saveSubscription=true)
\* and unsubscribe calls on one email the store holds at most one record
\* for it at all times, and its state is the effect of the write executed
\* last (autoNotify of the last upsert, absent after a delete); a call whose
\* statement did not execute changes nothing.
C17_LastWriterWins ==
    [][/\ UniqueKey'
       /\ LastWriteWins'
       /\ (lastCall' # lastCall /\ ~lastCall'[1].applied) => store' = store
       /\ lastCall' = lastCall => store' = store]_vars

\* A notify saved the record, an unsubscribe then removed it while the
\* send was in flight, and the send has settled: the record is absent.
C17_Witness ==
    /\ Len(reply) = 1 /\ Len(lastCall) = 1
    /\ inflight = EmptyBag
    /\ reply[1].op = "notify"
    /\ reply[1].email = EmailLower
    /\ reply[1].save /\ reply[1].writes = 1 /\ ~reply[1].failed
    /\ reply[1].sends = 1
    /\ lastCall[1].op = "delete"
    /\ lastCall[1].email = EmailLower
    /\ lastCall[1].changes = 1
    /\ ~HasRow(store, EmailLower)

\* The state of email e in the per-email subscription state machine.
SubState(rows, e) ==
    IF ~HasRow(rows, e) THEN "Unknown"
    ELSE IF SelectRow(rows, e)[1].auto_notify # 0 THEN "SubscribedTrue"
    ELSE "SubscribedFalse"

\* Every change of an email's state is one of the three transitions:
\* Unknown -> Subscribed{a} and Subscribed{a} -> Subscribed{a'} by a notify
\* that saves, Subscribed -> Unknown by unsubscribe.
OnlyTheThreeTransitions ==
    \A e \in AllEmails :
        SubState(store', e) # SubState(store, e) =>
            IF SubState(store', e) = "Unknown"
            THEN /\ Completes("unsubscribe")
                 /\ reply'[1].email = e
                 /\ lastCall'[1].op = "delete"
            ELSE /\ lastCall'[1].op = "upsert"
                 /\ lastCall'[1].email = e
                 /\ SubState(store', e) = (IF lastCall'[1].autoNotify
                                           THEN "SubscribedTrue"
                                           ELSE "SubscribedFalse")

\* The server takes a request and can start a send.
Ready ==
    /\ Serving /\ Idle
    /\ resendOn => BagCardinality(inflight) < MaxInFlight

\* A server that is not Ready can take the step that brings it there: the
\* written response leaves, the promise of initDB resolves, a pending send
\* settles.
BecomesReady ==
    /\ Len(reply) = 1 => ENABLED Deliver
    /\ (Idle /\ ~Serving) => ENABLED InitDBThen
    /\ (Idle /\ Serving /\ ~Ready) =>
          ENABLED (\E r \in BagToSet(inflight), outcome \in SendOutcomes :
                      MailSettles(r, outcome))

\* From a Ready server each state of email e is one request away.
EveryStateInReach(e) ==
    Ready =>
        \A t \in {"Unknown", "SubscribedTrue", "SubscribedFalse"} :
            ENABLED (Next /\ SubState(store', e) = t)

\* C18 as stated: the per-email state machine has exactly the three
\* transitions and no terminal state: from every reachable state Unknown,
\* Subscribed{true} and Subscribed{false} remain reachable.
C18_NoTerminalState ==
    /\ [][OnlyTheThreeTransitions]_vars
    /\ [](BecomesReady /\ \A e \in {EmailLower, EmailUpper} : EveryStateInReach(e))

\* C18 amended: the state machine has exactly the three transitions; on a
\* deployment with a database (Postgres or SQLite) there is no terminal
\* state, all three states remain reachable from every reachable state; on
\* the mock backend (neither database) every email stays Unknown.
C18_NoTerminalStateWithDatabase ==
    /\ [][OnlyTheThreeTransitions]_vars
    /\ [](/\ BecomesReady
          /\ (postgresUrl \/ sqliteOk) =>
                \A e \in {EmailLower, EmailUpper} : EveryStateInReach(e)
          /\ ~(postgresUrl \/ sqliteOk) => store = {})

\* The record of one email is Subscribed{false} by the last notify that
\* saved while that of another is Subscribed{true}.
C18_Witness ==
    /\ Len(lastCall) = 1
    /\ lastCall[1].op = "upsert"
    /\ lastCall[1].email = EmailLower
    /\ ~lastCall[1].autoNotify
    /\ lastCall[1].applied
    /\ SubState(store, EmailLower) = "SubscribedFalse"
    /\ SubState(store, EmailUpper) = "SubscribedTrue"

\* A discriminated result: a success body, or an error status with an
\* error message and no success flag.
Discriminated(resp) ==
    \/ resp.status = 200
    \/ /\ resp.status \in {400, 403, 500}
       /\ ~resp.success
       /\ resp.error # ""

\* C19: every invocation of getStatus, requestNotification and unsubscribe
\* ends with exactly one response, a discriminated result, on every path
\* including failing reads, writes and deletes and failures or exceptions
\* of the mail dispatcher: a handler that has called the store answers in
\* the same step or hands the request to the dispatcher, whose settling,
\* whatever the outcome, answers it once.
C19_ExactlyOneDiscriminatedResponse ==
    /\ [][/\ Len(reply') = 1 => Discriminated(reply'[1].resp)
          /\ lastCall' # lastCall =>
                \/ Len(reply') = 1 /\ inflight' = inflight
                \/ /\ reply' = << >>
                   /\ BagCardinality(inflight') = BagCardinality(inflight) + 1
          /\ BagCardinality(inflight') > BagCardinality(inflight) =>
                /\ BagCardinality(inflight') = BagCardinality(inflight) + 1
                /\ reply' = << >>
          /\ BagCardinality(inflight') < BagCardinality(inflight) =>
                /\ BagCardinality(inflight') = BagCardinality(inflight) - 1
                /\ Completes("notify")
                /\ reply'[1].sends = 1
          /\ (Completes("status") \/ Completes("unsubscribe")) =>
                inflight' = inflight
          /\ (Len(reply') = 1 /\ reply'[1].failed) =>
                reply'[1].resp \in {StatusResp(<< >>), StatusUnavailable, DatabaseError,
                                    Simulated} \cup {SendResult(o) : o \in SendOutcomes}]_vars
    /\ [](\A r \in BagToSet(inflight), outcome \in SendOutcomes :
             Idle => ENABLED MailSettles(r, outcome))

\* A notify whose subscription write failed and whose send threw has been
\* answered with status 500.
C19_Witness ==
    /\ Len(reply) = 1
    /\ reply[1].op = "notify"
    /\ reply[1].failed
    /\ reply[1].outcome = "reject"
    /\ reply[1].resp.status = 500
    /\ reply[1].resp.error = "Internal server error"

----------------------------------------------------------------------------
(* Missing air-quality reading (checked under SpecRisk)                     *)

\* The air-quality list is empty or its reading has no AQI value.
MissingAqi(d) == Len(d.aqiList) = 0 \/ d.aqiList[1] = 0

\* C20: a missing AQI reading is treated as AQI 1 and is not an error: the
\* assessment is that of the same snapshot with AQI 1, air quality
\* contributes 0 points and no air-quality trigger.
C20_MissingAqiIsBestCase ==
    (Loaded /\ MissingAqi(data[1])) =>
        LET d == data[1]
        IN /\ risk = RiskOf(<<[d EXCEPT !.aqiList = <<1>>]>>)
           /\ risk.score = (IF d.temp < 10 THEN 2 ELSE IF d.temp > 32 THEN 1 ELSE 0)
                         + (IF d.humidity > 75 THEN 2 ELSE 0)
                         + (IF d.windSpeed > 10 THEN 1 ELSE 0)
           /\ risk.level \in {"Low", "Moderate", "High", "Extreme"}
           /\ \A i \in 1..Len(risk.triggers) :
                 risk.triggers[i] \notin {"Poor Air Quality", "Moderate Air Pollution"}

\* A snapshot with an empty air-quality list and the three other rules
\* matched has been assessed: score 5 without an air-quality trigger.
C20_Witness ==
    /\ Loaded
    /\ data[1] = [temp |-> 5, humidity |-> 80, windSpeed |-> 12, aqiList |-> << >>]
    /\ risk.score = 5
    /\ risk.triggers = <<"Cold Air", "High Humidity", "High Wind (Allergens)">>

----------------------------------------------------------------------------
(* Further properties of the routes (under Spec)                            *)

\* C22: mail is dispatched only inside a requestNotification call and at
\* most once per call: with the dispatcher configured every call with a
\* valid email makes exactly one dispatch attempt and no other step makes
\* one (no retry, no background send, none caused by a stored autoNotify
\* flag), so attempts and valid calls are equal in number.
C22_OneDispatchPerValidCall ==
    [][/\ inflight' # inflight =>
             \/ /\ BagCardinality(inflight') = BagCardinality(inflight) + 1
                /\ resendOn
                /\ reply' = << >>
                /\ \A r \in BagToSet(inflight') : WellFormed(r.email)
             \/ /\ BagCardinality(inflight') = BagCardinality(inflight) - 1
                /\ Completes("notify")
                /\ reply'[1].sends = 1
       /\ Completes("notify") =>
             /\ reply'[1].sends \in {0, 1}
             /\ reply'[1].sends = 1 =>
                   /\ resendOn
                   /\ WellFormed(reply'[1].email)
                   /\ BagCardinality(inflight') = BagCardinality(inflight) - 1
             /\ (resendOn /\ reply'[1].sends = 0) =>
                   ~WellFormed(reply'[1].email) /\ reply'[1].resp.status = 400
       /\ (Completes("status") \/ Completes("unsubscribe")) =>
             reply'[1].sends = 0 /\ inflight' = inflight
       /\ (Len(reply') = 0 /\ inflight' = inflight) => store' = store]_vars

\* A notify whose send failed has been answered and nothing is left queued,
\* while a record with autoNotify set is stored.
C22_Witness ==
    /\ Len(reply) = 1
    /\ reply[1].op = "notify"
    /\ reply[1].sends = 1
    /\ reply[1].outcome = "message"
    /\ inflight = EmptyBag
    /\ \E r \in store : r.auto_notify = 1

\* C23: every record that ever exists in the store has an email matching
\* the validity pattern: no sequence of getStatus, requestNotification and
\* unsubscribe calls creates a record with an invalid or empty email.
C23_StoredEmailsAreValid ==
    \A r \in store : Len(r.email) > 0 /\ WellFormed(r.email)

\* Both valid emails are stored and a notify with saveEmail for an email
\* with whitespace has just been rejected.
C23_Witness ==
    /\ Cardinality(store) = 2
    /\ Len(reply) = 1
    /\ reply[1].op = "notify"
    /\ reply[1].email = EmailSpace
    /\ reply[1].save
    /\ reply[1].resp = InvalidEmail

\* C24: lastNotifiedAt of every record is null in every reachable state: no
\* insert, update on conflict or successful send writes it.
C24_LastNotifiedAtIsNull ==
    \A r \in store : r.last_notified_at = "NULL"

\* A notify that saved its record has been sent successfully; the record
\* is there.
C24_Witness ==
    /\ Len(reply) = 1
    /\ reply[1].op = "notify"
    /\ reply[1].email = EmailLower
    /\ reply[1].save /\ reply[1].writes = 1 /\ ~reply[1].failed
    /\ reply[1].outcome = "data"
    /\ reply[1].resp.success
    /\ HasRow(store, EmailLower)

\* This step answers, with success, a notify with saveEmail on the SQLite
\* backend, and no other store call was made since its upsert.
SqliteNotifySucceeds ==
    /\ ~postgresUrl /\ sqliteOk
    /\ Completes("notify")
    /\ reply'[1].save
    /\ reply'[1].resp.success
    /\ Len(lastCall') = 1
    /\ lastCall'[1].op = "upsert"
    /\ lastCall'[1].email = reply'[1].email

\* C25 as stated: with the SQLite backend every notify that returns success
\* with saveEmail=true is followed by getStatus reporting subscribed:true,
\* whether it arrived before or after localDb was assigned.
C25_SqliteNotifyAlwaysPersisted ==
    [][SqliteNotifySucceeds =>
          StatusResp(SelectRow(store', reply'[1].email)).subscribed]_vars

\* C25 amended: with the SQLite backend no request is handled before
\* localDb is assigned; every notify that returns success with saveEmail=true
\* has issued its INSERT against the database; an INSERT that does not fail
\* leaves a record for which getStatus reports subscribed:true with the
\* autoNotify sent (until the next write for that email), and an INSERT that
\* fails leaves the table as it was while the notify goes on.
C25_SqlitePersistedUnlessWriteFails ==
    /\ []((~postgresUrl /\ initPending) =>
             /\ reply = << >> /\ inflight = EmptyBag
             /\ lastCall = << >> /\ store = {})
    /\ [][SqliteNotifySucceeds => (Len(localDb) = 1 /\ reply'[1].writes = 1)]_vars
    /\ [][\A e \in AllEmails, an \in BOOLEAN, ok \in BOOLEAN :
            (~postgresUrl /\ sqliteOk /\ EmailRegexTest(e) /\ Notify(e, TRUE, an, ok))
            => /\ Len(localDb) = 1
               /\ IF ok
                  THEN StatusResp(SelectRow(store', e)) =
                          Resp(200, FALSE, FALSE, TRUE, an, "")
                  ELSE store' = store]_vars

\* On the SQLite backend a notify with saveEmail returned success and its
\* record, with autoNotify false, is in the database.
C25_Witness ==
    /\ ~postgresUrl /\ sqliteOk /\ ~initPending
    /\ Len(reply) = 1
    /\ reply[1].op = "notify"
    /\ reply[1].email = EmailUpper
    /\ reply[1].save /\ ~reply[1].failed
    /\ reply[1].resp.success
    /\ Row(EmailUpper, 0) \in store

----------------------------------------------------------------------------
(* Properties of weather loading in the page (under SpecWeather)           *)

\* C28: the loading flag is true whenever a weather request (coordinate
\* fetch or city search) is in flight, whatever the interleaving of
\* geolocation refreshes and searches, and it is false once every request
\* has completed and no position lookup is under way.
C28_LoadingWhileInFlight ==
    /\ BagCardinality(fetches) > 0 => loading
    /\ (mounted /\ BagCardinality(fetches) = 0 /\ geoPending = 0) => ~loading

\* C30: when the position lookup was denied and the fetch for New York
\* that the denial started succeeds, the denial notice that was displayed
\* before the fetch returned is still displayed after it.
C30_DeniedNoticeSurvivesLoad ==
    [][ \A d \in UiSnapshots :
          ( /\ FetchWeatherReturns([kind |-> "weather", origin |-> "denied"], "ok", d)
            /\ uiError = DeniedNotice )
          => uiError' = DeniedNotice ]_vars

----------------------------------------------------------------------------
(* Properties of the alert form (under SpecAlerts, SpecAlertsLive and      *)
(* SpecChecks)                                                             *)

\* This step issues a notify request from the page.
IssuesNotify == BagCardinality(notifies') > BagCardinality(notifies)

\* C21: the page gates sends: a notify request is issued only while the
\* risk level is not Low, the email field is not empty and no send is under
\* way, so at most one notify request of the page is in flight.
C21_SendsAreGated ==
    /\ [](BagCardinality(notifies) <= 1)
    /\ [][IssuesNotify =>
            (risk.level # "Low" /\ email # EmailNone /\ ~sendingEmail)]_vars

\* A send is under way; the level that allowed it is not Low.
C21_Witness ==
    /\ BagCardinality(notifies) = 1
    /\ sendingEmail
    /\ risk.level \in {"High", "Extreme"}

\* The UI shows the status the table holds for the address in the field.
ShowsStatusOfField ==
    /\ isSubscribed = HasRow(store, email)
    /\ uiAutoNotify = (\E r \in store : r.email = email /\ r.auto_notify # 0)

\* C26: when the last outstanding subscription check returns and the UI
\* already showed the status of the address that is in the field, it still
\* shows that status afterwards: a late response for an earlier address does
\* not overwrite it.
C26_LateCheckDoesNotOverwrite ==
    [][ \A c \in BagToSet(checks), net \in NetOutcomes :
          ( /\ CheckReturns(c, net)
            /\ BagCardinality(checks') = 0
            /\ validateEmail(email)
            /\ ShowsStatusOfField )
          => ShowsStatusOfField' ]_vars

\* C27: a subscription check answered for an address that has no record
\* leaves the auto-notify switch as it was.
C27_CheckKeepsAutoNotify ==
    [][ \A c \in BagToSet(checks) :
          ( /\ CheckReturns(c, "json")
            /\ c.resp[1] = StatusResp(<< >>)
            /\ ~HasRow(store, c.email) )
          => uiAutoNotify' = uiAutoNotify ]_vars

\* C29: a handleNotify that set sendingEmail resets it, whatever the
\* response (success, error status, body that does not parse, rejected
\* fetch); a handleNotify stopped by an invalid email or by missing weather
\* data does not set it.
C29_SendingEmailIsReset ==
    /\ sendingEmail ~> ~sendingEmail
    /\ [][(\E n \in BagToSet(notifies), net \in NetOutcomes : NotifyReturns(n, net))
            => ~sendingEmail']_vars
    /\ [][(handleNotify /\ (~validateEmail(email) \/ Len(data) = 0))
            => (~sendingEmail' /\ ~IssuesNotify)]_vars

\* A send whose fetch was rejected has returned and the flag is down.
C29_Witness ==
    /\ ~sendingEmail
    /\ BagCardinality(notifies) = 0
    /\ showNotification = <<Notification("error", "Failed to fetch")>>

====
